---- MODULE Spec2Model ----
(***************************************************************************)
(* TeeTimeAI crawler (backend/src/tee_time_ai/crawler.py).                  *)
(*                                                                         *)
(* The discovery run find_booking_url_and_login is modelled as a state     *)
(* machine whose steps are the await points of the coroutine chain:        *)
(*   find_booking_url_and_login -> _find_booking_url_via_arun              *)
(*     -> _recursive_tee_time_search_arun (after_goto hook) -> ...         *)
(* Strings (URLs, hrefs, anchor texts, markup phrases) are sequences or    *)
(* sets of word tokens; "p in s" is token containment after lower().       *)
(*                                                                         *)
(* The runs over the venue file (update_course_booking_urls,               *)
(* update_course_booking_urls_simple, and the script tee_time_crawler.py)  *)
(* are part of the same machine; PureSpec applies the page helpers         *)
(* (_find_booking_url_on_page, _perform_login,                             *)
(* _click_with_navigation_handling) to the pages of the model.             *)
(***************************************************************************)
EXTENDS Integers, Sequences, FiniteSets, TLC

(***************************************************************************)
(* Bounds of the model.                                                    *)
(***************************************************************************)
\* number of distinct absolute site URLs the visited pages may link to
NumUrls == 2
\* largest number of anchors on a page handed to the link finders
MaxAnchors == 2
\* largest number of phrases in the markup of a page
MaxPhrases == 1

(***************************************************************************)
(* Program constants.                                                      *)
(***************************************************************************)
\* max_depth=5 passed by find_booking_url_and_login
max_depth == 5

\* Python None, distinct from every string (token sequence)
None == <<"<None>">>

\* a key that a record (dict) of the venue file does not have
Absent == <<"<absent>">>

\* course.get(key): None for a key the record does not have
Get(v) == IF v = Absent THEN None ELSE v

VARIABLES
  entry,      \* the entry point that runs: "discover", "update", "update_simple",
              \* "script" (tee_time_crawler.py), "helper" (a helper on its own)
  use_llm,    \* the use_llm argument of update_course_booking_urls
  file,       \* the venue file (golf_courses.json): whether it exists, its records
  idx,        \* position of the batch loop "for course in courses" (1-based)
  batchNavs,  \* indexes of the courses the batch run navigated, in order (history)
  signals,    \* indexes of the courses whose processing raised a rate-limit error (history)
  call,       \* a helper called on its own: its name, argument and result
  pc,         \* position of the run (the await it is suspended at)
  courses,    \* what _load_courses returned: the course records in memory
  username,   \* os.getenv("GOLF_USERNAME")
  password,   \* os.getenv("GOLF_PASSWORD")
  browser,    \* "none", "open", "closed": the AsyncWebCrawler
  starts,     \* number of crawler.start() calls
  closes,     \* number of crawler.close() calls
  hook,       \* the after_goto hook registered on the crawler strategy
  hookSets,   \* number of set_hook calls of the probe chain
  booking_url,\* result of _find_booking_url_via_arun (None before)
  url,        \* url argument of the running probe frame
  depth,      \* depth argument of the running probe frame
  frames,     \* number of probe frames suspended in "return await ..."
  result,     \* the result dict of the running probe frame
  page,       \* the page handed to the after_goto hook (its DOM), or None
  calls,      \* helper calls made by the running probe frame's hook
  next_url,   \* the hook's local next_url: what _find_next_candidate_link gave
  navs,       \* URLs navigated by probe steps, in order (history)
  cands,      \* URLs _find_next_candidate_link returned to probe steps (history)
  seekNavs,   \* number of navigations of the seek step
  login,      \* what _perform_login did during the run (history flags)
  retval,     \* value returned by the innermost finished probe frame
  outcome     \* terminal outcome of the run

batchVars == <<entry, use_llm, file, idx, batchNavs, signals>>

pureVars == <<call>>

engineVars == <<username, password, hook, hookSets, booking_url, url, depth, frames,
                result, page, calls, next_url, navs, cands, seekNavs, login, retval>>

vars == <<entry, use_llm, file, idx, batchNavs, signals, call, pc, courses,
          username, password, browser, starts, closes, hook, hookSets, booking_url,
          url, depth, frames, result, page, calls, next_url, navs, cands, seekNavs,
          login, retval, outcome>>

(***************************************************************************)
(* Strings.  A URL / href / anchor text is a sequence of word tokens; page *)
(* markup is a set of phrases.                                             *)
(***************************************************************************)
\* str.lower() on the tokens used by the model
Lower(t) ==
  CASE t = "Book" -> "book"
    [] t = "Book Now" -> "book now"
    [] t = "Tee" -> "tee"
    [] t = "Times" -> "times"
    [] t = "ForeUp.com" -> "foreup.com"
    [] t = "About" -> "about"
    [] t = "Book Online" -> "book online"
    [] t = "Rate limit reached - stopping execution"
         -> "rate limit reached - stopping execution"
    [] t = "Rate Limit exceeded" -> "rate limit exceeded"
    [] t = "9:00 AM 10:30 AM 14:15" -> "9:00 am 10:30 am 14:15"
    [] t = "Please Sign In" -> "please sign in"
    [] OTHER -> t

\* proper substrings among the tokens used by the model: <<p, t>> means p in t
TokenSubstrings ==
  { <<"book", "booking">>, <<"book", "book now">>, <<"tee", "teetime">>,
    <<"tee", "tee time">>, <<"tee", "teeitup.golf">>, <<"foreup", "foreup.com">>,
    <<"teeitup", "teeitup.golf">>, <<"golfnow", "golfnow.com">>,
    <<"book", "facebook.com">>, <<"times", "available tee times">>,
    <<"tee", "available tee times">>,
    <<"rate limit", "rate limit reached - stopping execution">>,
    <<"rate limit", "rate limit exceeded">>,
    <<"book", "book online">>, <<"sign in", "please sign in">> }

\* Python "p in t" for two tokens
SubTok(p, t) == p = t \/ <<p, t>> \in TokenSubstrings

\* Python "p in s.lower()" for a token sequence s
InLower(p, s) == \E i \in 1..Len(s) : SubTok(p, Lower(s[i]))

\* any(p in s.lower() for p in patterns)
AnyIn(patterns, s) == \E p \in patterns : InLower(p, s)

RECURSIVE RStrip(_)
\* s.rstrip('/')
RStrip(s) ==
  IF Len(s) > 0 /\ s[Len(s)] = "/" THEN RStrip(SubSeq(s, 1, Len(s) - 1)) ELSE s

RECURSIVE LStrip(_)
\* s.lstrip('/')
LStrip(s) ==
  IF Len(s) > 0 /\ s[1] = "/" THEN LStrip(Tail(s)) ELSE s

\* href.startswith('http')
StartsWithHttp(href) == Len(href) > 0 /\ href[1] = "http"

\* href if href.startswith('http') else page.url.rstrip('/') + '/' + href.lstrip('/')
Resolve(pageUrl, href) ==
  IF StartsWithHttp(href) THEN href
  ELSE RStrip(pageUrl) \o <<"/">> \o LStrip(href)

\* Python truthiness of an Optional[str]
Truthy(v) == v /= None /\ v /= <<>>

\* index of the first element of sequence s satisfying Test, 0 if there is none
FirstIndex(s, Test(_)) ==
  IF \E i \in 1..Len(s) : Test(s[i])
  THEN CHOOSE i \in 1..Len(s) : Test(s[i]) /\ \A j \in 1..(i - 1) : ~Test(s[j])
  ELSE 0

(***************************************************************************)
(* Content heuristics.                                                     *)
(***************************************************************************)
priority_patterns ==
  { "foreup.com", "teeitup.golf", "golfnow.com", "chronogolf.com", "teeoff.com",
    "golf18network.com", "ezlinks.com", "teesnap.com", "golfzing.com" }

booking_patterns ==
  { "book", "reserve", "tee time", "teetime", "booking", "calendar", "schedule" }

exclude_patterns ==
  { "facebook.com", "twitter.com", "instagram.com", "youtube.com", "linkedin.com",
    "pinterest.com", "tiktok.com", "snapchat.com", "reddit.com", "yelp.com",
    "google.com", "maps.google.com", "wikipedia.org", "amazon.com", "ebay.com" }

candidate_patterns ==
  { "tee", "book", "reserve", "calendar", "times", "golfnow", "foreup", "booking",
    "availability", "schedule" }

\* first loop of _find_booking_url_on_page: the anchor is a priority booking link
IsPriorityAnchor(a) == Truthy(a.href) /\ AnyIn(priority_patterns, a.href)

\* second loop: the anchor is a general booking link that is not excluded
IsGeneralAnchor(a) ==
  /\ Truthy(a.href)
  /\ ~AnyIn(exclude_patterns, a.href)
  /\ AnyIn(booking_patterns, a.href)

\* one loop over the anchors: the first one that is a priority link or a
\* general booking link that is not excluded
BookingHrefDocOrder(anchors) ==
  LET Either(a) == IsPriorityAnchor(a) \/ IsGeneralAnchor(a)
      i == FirstIndex(anchors, Either)
  IN  IF i > 0 THEN anchors[i].href ELSE None

\* the href _find_booking_url_on_page settles on: the first priority link,
\* else the first general booking link that is not excluded, else None
BookingHref(anchors) ==
  LET i1 == FirstIndex(anchors, IsPriorityAnchor)
      i2 == FirstIndex(anchors, IsGeneralAnchor)
  IN  IF i1 > 0 THEN anchors[i1].href
      ELSE IF i2 > 0 THEN anchors[i2].href
      ELSE None

\* the return statements of the link finders: the href made absolute
ResolveFound(href, pageUrl) ==
  IF href = None THEN None ELSE Resolve(pageUrl, href)

\* _find_booking_url_on_page(page): anchors in document order, page.url
FindBookingUrlOnPage(anchors, pageUrl) ==
  ResolveFound(BookingHref(anchors), pageUrl)

\* (await a.text_content() or '').lower(), as the token sequence to search
TextOf(a) == IF a.text = None THEN <<>> ELSE a.text

\* the anchor matches by href, the first test of _find_next_candidate_link
CandidateByHref(a) == Truthy(a.href) /\ AnyIn(candidate_patterns, a.href)

\* the anchor matches by text, the second test of _find_next_candidate_link
CandidateByText(a) == AnyIn(candidate_patterns, TextOf(a))

IsCandidateAnchor(a) == CandidateByHref(a) \/ CandidateByText(a)

\* a search that keeps looking and settles on the last matching anchor
CandidateHrefLast(anchors) ==
  LET m == { i \in 1..Len(anchors) : IsCandidateAnchor(anchors[i]) }
  IN  IF m = {} THEN None
      ELSE LET i == CHOOSE i \in m : \A j \in m : j <= i
           IN  IF Truthy(anchors[i].href) THEN anchors[i].href ELSE <<>>

\* the href _find_next_candidate_link settles on: that of the first anchor in
\* document order matching by href or by text ("href = href or ''"), None if
\* no anchor matches
CandidateHref(anchors) ==
  LET i == FirstIndex(anchors, IsCandidateAnchor)
  IN  IF i = 0 THEN None
      ELSE IF Truthy(anchors[i].href) THEN anchors[i].href
      ELSE <<>>

\* _find_next_candidate_link(page)
FindNextCandidateLink(anchors, pageUrl) ==
  ResolveFound(CandidateHref(anchors), pageUrl)

golf_booking_patterns ==
  { "select a tee time", "choose a tee time", "available tee times",
    "book your tee time", "tee time booking", "golf tee times", "reserve tee time",
    "book tee time", "foreup", "teeitup", "golfnow", "tee time calendar",
    "golf booking calendar", "time slot", "booking slot", "golf reservation",
    "tee time reservation" }

booking_widget_patterns ==
  { "booking widget", "tee time widget", "golf booking", "reservation system",
    "select date", "select time", "choose date", "choose time", "date picker",
    "time picker", "calendar widget", "booking calendar" }

booking_action_patterns ==
  { "book now", "reserve now", "book tee time", "reserve tee time", "select time",
    "choose time", "book golf", "reserve golf", "book online", "reserve online" }

booking_systems == { "foreup.com", "teeitup.golf", "golfnow.com", "chronogolf.com" }

\* "p in content" for content = (await page.content()).lower(), a set of phrases
InContent(p, content) == \E t \in content : SubTok(p, Lower(t))

\* _detect_tee_times(page): the four pattern loops over the lowered markup
DetectTeeTimes(content) ==
  \/ \E p \in golf_booking_patterns : InContent(p, content)
  \/ \E p \in booking_widget_patterns : InContent(p, content)
  \/ \E p \in booking_action_patterns : InContent(p, content)
  \/ \E p \in booking_systems : InContent(p, content)

(***************************************************************************)
(* Login.  The DOM of a page is the set of selectors that match an element *)
(* of it (what page.query_selector / wait_for_selector answer).            *)
(***************************************************************************)
login_selectors ==
  << "input[name=\"username\"]", "input[name=\"email\"]", "input[type=\"email\"]",
     "input[id*=\"username\"]", "input[id*=\"email\"]", "input[placeholder*=\"email\"]",
     "input[placeholder*=\"username\"]", "input[placeholder*=\"Email\"]",
     "input[placeholder*=\"Username\"]" >>

password_selectors ==
  << "input[name=\"password\"]", "input[type=\"password\"]", "input[id*=\"password\"]",
     "input[placeholder*=\"password\"]", "input[placeholder*=\"Password\"]" >>

form_indicators ==
  << "form[action*=\"login\"]", "form[action*=\"signin\"]", "form[id*=\"login\"]",
     "form[class*=\"login\"]", "form[id*=\"signin\"]", "form[class*=\"signin\"]" >>

submit_selectors ==
  << "button[type=\"submit\"]", "input[type=\"submit\"]", "button:contains(\"Login\")",
     "button:contains(\"Sign In\")", "button:contains(\"Log In\")",
     "input[value*=\"Login\"]", "input[value*=\"Sign In\"]", "input[value*=\"Log In\"]" >>

\* some selector of the list matches an element of the page
AnySelector(selectors, dom) == \E i \in 1..Len(selectors) : selectors[i] \in dom

\* _check_for_login_fields(page)
CheckForLoginFields(dom) ==
  \/ AnySelector(login_selectors, dom)
  \/ AnySelector(password_selectors, dom)
  \/ AnySelector(form_indicators, dom)

\* a loop without its "break": it ends on the last selector that matches
LastMatch(selectors, dom) ==
  IF \E i \in 1..Len(selectors) : selectors[i] \in dom
  THEN CHOOSE i \in 1..Len(selectors) :
         /\ selectors[i] \in dom
         /\ \A j \in (i + 1)..Len(selectors) : selectors[j] \notin dom
  ELSE 0

\* index of the first selector of the list that matches an element, 0 if none:
\* the loops "for selector in ...: try: wait_for_selector ... break"
FirstMatch(selectors, dom) == FirstIndex(selectors, LAMBDA x : x \in dom)

\* the page operation a loop of _perform_login ends with, if it found a selector
PageOp(kind, selectors, i) ==
  IF i > 0 THEN <<[op |-> kind, selector |-> selectors[i]]>> ELSE <<>>

\* the selectors a loop of _perform_login tries, in the order tried: up to the
\* one it stopped at, or the whole list
Tried(selectors, i) == SubSeq(selectors, 1, IF i > 0 THEN i ELSE Len(selectors))

\* a login that goes on to the next field when one could not be filled
PerformLoginKeepsGoing(dom) ==
  LET iu == FirstMatch(login_selectors, dom)
      ip == FirstMatch(password_selectors, dom)
      ic == FirstMatch(submit_selectors, dom)
  IN  [userFilled |-> iu > 0, passFilled |-> ip > 0, clicked |-> ic > 0,
       ok |-> iu > 0 /\ ip > 0 /\ ic > 0,
       ops |-> PageOp("fill_username", login_selectors, iu)
               \o PageOp("fill_password", password_selectors, ip)
               \o PageOp("click", submit_selectors, ic)]

\* _perform_login(page, username, password, ...): what it fills and clicks (the
\* page operations in the order made), the selectors each loop tried, and the
\* value it returns
PerformLogin(dom) ==
  LET iu == FirstMatch(login_selectors, dom)
      u == iu > 0
      ip == IF u THEN FirstMatch(password_selectors, dom) ELSE 0
      p == ip > 0
      ic == IF p THEN FirstMatch(submit_selectors, dom) ELSE 0
      c == ic > 0
  IN  [userFilled |-> u, passFilled |-> p, clicked |-> c, ok |-> c,
       ops |-> PageOp("fill_username", login_selectors, iu)
               \o PageOp("fill_password", password_selectors, ip)
               \o PageOp("click", submit_selectors, ic),
       tried |-> [username |-> Tried(login_selectors, iu),
                  password |-> IF u THEN Tried(password_selectors, ip) ELSE <<>>,
                  submit |-> IF p THEN Tried(submit_selectors, ic) ELSE <<>>]]

\* str(e) for the exception of a page operation that failed, as the except
\* clauses print it: Playwright's message names the failed call and lists its
\* call log, for page.fill the selector and the value to fill in
WaitError(selector) == <<"wait_for_selector", selector>>

FillError(selector, value) == <<"fill", selector>> \o value

\* the lines one fill loop of _perform_login prints for a value: a "Failed to
\* fill" line with str(e) for every selector tried in vain (the element is
\* missing, or it is there and stuck: fill raises), then "Filled" or "Could not
\* find"
FillLoopLog(kind, selectors, dom, stuck, value) ==
  LET i == FirstMatch(selectors, dom)
      last == IF i > 0 THEN i - 1 ELSE Len(selectors)
      failed == [k \in 1..last |->
                   [line |-> "Failed to fill", field |-> kind, selector |-> selectors[k],
                    e |-> IF selectors[k] \in stuck
                          THEN FillError(selectors[k], value)
                          ELSE WaitError(selectors[k])]]
  IN  failed \o
      (IF i > 0
       THEN <<[line |-> "Filled", field |-> kind, selector |-> selectors[i], e |-> <<>>]>>
       ELSE <<[line |-> "Could not find", field |-> kind, selector |-> "", e |-> <<>>]>>)

\* the lines the two fill loops of _perform_login print
PerformLoginLog(dom, stuck, username_, password_) ==
  FillLoopLog("username", login_selectors, dom, stuck, username_)
  \o (IF FirstMatch(login_selectors, dom) > 0
      THEN FillLoopLog("password", password_selectors, dom, stuck, password_)
      ELSE <<>>)

\* click approaches that are all made, whether or not one has succeeded
ClickAttemptsAll(e) ==
  <<"visible", "force", "js">> \o (IF e.href THEN <<"goto">> ELSE <<>>)

\* the click approaches _click_with_navigation_handling makes, in the order
\* made: each "if not click_success" lets the next approach run, and page.goto
\* is called only for an element with an href
ClickAttempts(e) ==
  <<"visible">>
  \o (IF ~e.visible THEN <<"force">> ELSE <<>>)
  \o (IF ~e.visible /\ ~e.force THEN <<"js">> ELSE <<>>)
  \o (IF ~e.visible /\ ~e.force /\ ~e.js /\ e.href THEN <<"goto">> ELSE <<>>)

\* a helper that removes its listener at the end of its body, not in "finally"
ClickTraceNoFinally(e) ==
  LET click_success == e.visible \/ e.force \/ e.js \/ (e.href /\ e.goto)
      waits == e.navEvent \/ e.urlChanged
  IN  <<"on">> \o ClickAttempts(e)
      \o (IF click_success /\ waits THEN <<"wait_for_load_state">> ELSE <<>>)
      \o (IF click_success /\ ~(waits /\ ~e.waitOk) THEN <<"remove_listener">> ELSE <<>>)

\* the page operations of a call of _click_with_navigation_handling, in the
\* order made: page.on('framenavigated', ...), the click approaches, the wait
\* for the new page if a navigation was seen, and page.remove_listener in the
\* "finally" clause, which every way out of the inner try block goes through
ClickTrace(e) ==
  LET click_success == e.visible \/ e.force \/ e.js \/ (e.href /\ e.goto)
      waits == e.navEvent \/ e.urlChanged
  IN  <<"on">> \o ClickAttempts(e)
      \o (IF click_success /\ waits THEN <<"wait_for_load_state">> ELSE <<>>)
      \o <<"remove_listener">>

\* _click_with_navigation_handling(page, element, element_desc) for what the
\* page does: which click approaches succeed (visible click, forced click,
\* JavaScript click, href read and page.goto), whether a framenavigated event
\* arrives, whether page.url changed, whether wait_for_load_state returns.
\* An exception of wait_for_load_state reaches the outer "except: return False".
ClickWithNavigationHandling(e) ==
  LET click_success == e.visible \/ e.force \/ e.js \/ (e.href /\ e.goto)
      waits == e.navEvent \/ e.urlChanged
  IN  IF ~click_success THEN FALSE
      ELSE IF waits /\ ~e.waitOk THEN FALSE
      ELSE TRUE

(***************************************************************************)
(* Inputs of the discovery run: what the environment (the venue file, the  *)
(* process environment, the web) can hand to the program.                  *)
(***************************************************************************)
\* all sequences over S of length at most n
SeqsUpTo(S, n) == UNION { [1..k -> S] : k \in 0..n }

\* all subsets of S with at most n elements
SubsetsUpTo(S, n) == { T \in SUBSET S : Cardinality(T) <= n }

\* course['url'] of the first course of the venue file
MainUrl == <<"http", "0", "/">>

\* absolute URLs of the sites the pages link to; odd sites have a path with a
\* booking keyword, even sites are bare hosts (found only by the anchor text)
SiteUrl(i) ==
  <<"http", ToString(i)>> \o (IF i % 2 = 1 THEN <<"/", "book">> ELSE <<>>)

SiteUrls == { SiteUrl(i) : i \in 1..NumUrls }

\* anchors of the venue's home page (the text is not read by the seek step)
SeekAnchors ==
  { [href |-> h, text |-> None] :
      h \in SiteUrls \cup { None, <<"http", "ForeUp.com">>,
                            <<"http", "facebook.com", "/", "book">>,
                            <<"http", "facebook.com", "/", "ForeUp.com">>,
                            <<"/", "book">> } }

\* anchors of a probed page: links to the sites with and without a candidate
\* keyword in the text, and an anchor without href
ProbeAnchors ==
  { [href |-> h, text |-> t] :
      h \in SiteUrls, t \in { None, <<"Tee", "Times">>, <<"About">> } }
  \cup { [href |-> None, text |-> <<"About">>] }

\* the anchor lists of the home page and of a probed page
SeekAnchorLists == SeqsUpTo(SeekAnchors, MaxAnchors)

ProbeAnchorLists == SeqsUpTo(ProbeAnchors, MaxAnchors)

\* the hrefs the link finders settle on, over the pages of the model
SeekBookingHrefs == { BookingHref(anchors) : anchors \in SeekAnchorLists }

ProbeCandidateHrefs == { CandidateHref(anchors) : anchors \in ProbeAnchorLists }

\* phrases a page's markup is made of: booking keywords, names of booking
\* systems, a row of tee-sheet times, a login prompt, plain text
ContentPhrases ==
  { "available tee times", "date picker", "Book Now", "chronogolf.com", "ForeUp.com",
    "9:00 AM 10:30 AM 14:15", "Please Sign In", "welcome" }

Contents == SubsetsUpTo(ContentPhrases, MaxPhrases)

\* what _detect_tee_times answers, over the markups of the model
DetectAnswers == { DetectTeeTimes(content) : content \in Contents }

\* DOMs of the probed pages, as the sets of selectors matching an element
Doms ==
  { {},
    { "input[name=\"username\"]" },
    { "input[type=\"password\"]" },
    { "form[id*=\"login\"]" },
    { "input[type=\"email\"]", "input[name=\"password\"]" },
    { "input[name=\"username\"]", "input[type=\"password\"]",
      "button[type=\"submit\"]" } }

\* os.getenv("GOLF_USERNAME"): unset or set
Usernames == { None, <<"golfer">> }

\* os.getenv("GOLF_PASSWORD"): empty or set
Passwords == { <<>>, <<"secret">> }

\* what crawler.arun does with a navigation: the page loads and the after_goto
\* hook runs, the navigation fails and arun returns without running the hook,
\* or arun raises
NavOutcomes == { "ok", "failed", "raised" }

\* whether the responses the page received while it loaded (the XHR / fetch
\* traffic of a booking widget) hold slot data; none of the hooks reads them
ApiTraffic == BOOLEAN

NoPage == [loaded |-> FALSE, dom |-> {}, api |-> FALSE]

\* result = {'tee_times_found': False, 'login_needed': False, 'next_url': None}
NewResult == [tee_times_found |-> FALSE, login_needed |-> FALSE, next_url |-> None]

NoCalls == [detect |-> 0, login |-> 0, perform |-> 0, next |-> 0]

NoLogin == [performed |-> FALSE, userFilled |-> FALSE, passFilled |-> FALSE,
            clicked |-> FALSE]

\* no helper is called on its own during a run of an entry point
NoCall ==
  [fn |-> "none", arg |-> <<>>, returned |-> FALSE, out |-> <<>>, ops |-> <<>>,
   trace |-> <<>>]

\* pages handed to _find_booking_url_on_page: the anchors and page.url
FinderInputs == { [anchors |-> l, url |-> MainUrl] : l \in SeekAnchorLists }

\* pages handed to _find_next_candidate_link by a probe step: the anchors, and
\* page.url, the URL the step navigated to
CandidateInputs ==
  { [anchors |-> l, url |-> u] : l \in ProbeAnchorLists, u \in SiteUrls }

\* pages handed to _perform_login, as the sets of selectors matching an element
LoginDoms ==
  SUBSET { "input[name=\"username\"]", "input[type=\"email\"]",
           "input[type=\"password\"]", "button[type=\"submit\"]",
           "button:contains(\"Login\")" }

\* a page handed to _perform_login with elements that are there and cannot be
\* filled (disabled or read-only inputs)
StuckSelectors == { "input[name=\"username\"]", "input[name=\"password\"]" }

LoginPages ==
  { [dom |-> d, stuck |-> st] : d \in LoginDoms, st \in SUBSET StuckSelectors }

\* two settings of GOLF_USERNAME / GOLF_PASSWORD
CredentialPairs ==
  << [username |-> <<"golfer">>, password |-> <<"secret">>],
     [username |-> <<"member">>, password |-> <<"hunter2">>] >>

\* largest number of calls of _click_with_navigation_handling on one page
MaxClicks == 2

\* what the page does during a call of _click_with_navigation_handling
ClickInputs ==
  [ visible : BOOLEAN, force : BOOLEAN, js : BOOLEAN, href : BOOLEAN,
    goto : BOOLEAN, navEvent : BOOLEAN, urlChanged : BOOLEAN, waitOk : BOOLEAN ]

(***************************************************************************)
(* The venue file and the batch updaters' inputs.                          *)
(***************************************************************************)
\* largest number of records in the venue file
MaxCourses == 2

\* a booking URL a record holds from an earlier run
OldBookingUrl == <<"http", "old", "/", "book">>

\* a record of the venue file as last persisted
CourseRecord(u, b) ==
  [url |-> u, booking_url |-> b, name |-> <<"Old", "Name">>, last_updated |-> <<"old">>]

\* the records a venue file may hold: url key absent, url empty, url without
\* and with a booking keyword; booking_url null or set
CourseRecords ==
  { CourseRecord(u, b) : u \in { Absent, <<>>, MainUrl, SiteUrl(1) },
                         b \in { None, OldBookingUrl } }

MissingFile == [exists |-> FALSE, records |-> <<>>]

\* venue files of the batch updaters
BatchFiles ==
  { MissingFile } \cup
  { [exists |-> TRUE, records |-> r] : r \in SeqsUpTo(CourseRecords, MaxCourses) }

\* venue files of the discovery run, which reads course['url'] of the first record
DiscoverFiles ==
  { MissingFile, [exists |-> TRUE, records |-> <<>>] } \cup
  { [exists |-> TRUE, records |-> <<CourseRecord(u, None)>>] :
      u \in { MainUrl, Absent, <<>> } }

\* a load that makes up a record when the file does not exist
LoadFileDefault(f) ==
  IF f.exists THEN f.records ELSE <<CourseRecord(MainUrl, None)>>

\* _load_courses: the records, [] when the file does not exist
LoadFile(f) == IF f.exists THEN f.records ELSE <<>>

(***************************************************************************)
(* Decisions of the discovery engine.                                      *)
(***************************************************************************)
\* depth test that lets one more frame through
DepthExceededLate(d, m) == d > m + 1

\* depth test that stops at depth = max_depth
DepthExceededAtMax(d, m) == d >= m

\* if depth > max_depth
DepthExceeded(d, m) == d > m

\* credential test that looks at the username only
HasUsernameOnly(u, p) == Truthy(u)

\* if username and password
HasCredentials(u, p) == Truthy(u) /\ Truthy(p)

\* candidate test without the comparison with the current URL
AcceptAnyNext(candidate, current) == Truthy(candidate)

\* candidate test against a visited set
AcceptUnvisited(candidate, current) ==
  Truthy(candidate) /\ \A k \in 1..Len(navs) : navs[k] /= candidate

\* if next_url and next_url != url
AcceptNext(candidate, current) == Truthy(candidate) /\ candidate /= current

\* recursive call that counts two levels for one
NextDepthSkips(d) == d + 2

\* recursive call that passes its own depth on
SameDepth(d) == d

\* the depth argument of the recursive call
NextDepth(d) == d + 1

\* first probe call that starts one level down
FirstDepthOne == max_depth - 4

\* the depth argument of the first probe call
FirstDepth == 0

Init ==
  /\ \/ /\ entry = "discover"
        /\ use_llm = FALSE
        /\ file \in DiscoverFiles
        /\ username \in Usernames
        /\ password \in Passwords
     \/ /\ entry = "update"
        /\ use_llm \in BOOLEAN
        /\ file \in BatchFiles
        /\ username = None
        /\ password = None
     \/ /\ entry \in {"update_simple", "script"}
        /\ use_llm = FALSE
        /\ file \in BatchFiles
        /\ username = None
        /\ password = None
  /\ idx = 0
  /\ batchNavs = <<>>
  /\ signals = <<>>
  /\ call = NoCall
  /\ cands = <<>>
  /\ pc = "load"
  /\ courses = <<>>
  /\ browser = "none"
  /\ starts = 0
  /\ closes = 0
  /\ hook = "none"
  /\ hookSets = 0
  /\ booking_url = None
  /\ url = None
  /\ depth = 0
  /\ frames = 0
  /\ result = NewResult
  /\ page = NoPage
  /\ calls = NoCalls
  /\ next_url = None
  /\ navs = <<>>
  /\ seekNavs = 0
  /\ login = NoLogin
  /\ retval = FALSE
  /\ outcome = "none"

\* find_booking_url_and_login up to its first await: _load_courses, the
\* credentials, then crawler.start()
LoadCourses ==
  /\ pc = "load"
  /\ entry = "discover"
  /\ courses' = LoadFile(file)
  /\ IF courses' = <<>>
     THEN /\ pc' = "done"
          /\ outcome' = "NO_COURSES"
          /\ UNCHANGED <<browser, starts>>
     ELSE IF courses'[1].url = Absent
     THEN \* main_url = course['url'] raises KeyError
          /\ pc' = "done"
          /\ outcome' = "KEY_ERROR"
          /\ UNCHANGED <<browser, starts>>
     ELSE /\ pc' = "seek"
          /\ browser' = "open"
          /\ starts' = starts + 1
          /\ UNCHANGED outcome
  /\ UNCHANGED <<closes, engineVars, batchVars, pureVars>>

\* what arun can do with a URL: no page loads from a URL that is empty
ArunOutcomes(u) == IF Truthy(u) THEN NavOutcomes ELSE { "failed", "raised" }

\* _find_booking_url_via_arun: set_hook, arun(main_url) with the hook running
\* _find_booking_url_on_page on the loaded page
SeekBookingUrl ==
  /\ pc = "seek"
  /\ hook' = "seek"
  /\ seekNavs' = seekNavs + 1
  /\ \E nav \in ArunOutcomes(courses[1].url) :
       \/ /\ nav = "ok"
          /\ \E href \in SeekBookingHrefs :
               booking_url' = ResolveFound(href, courses[1].url)
          /\ pc' = "seek_done"
          /\ UNCHANGED outcome
       \/ /\ nav = "failed"
          /\ booking_url' = None
          /\ pc' = "seek_done"
          /\ UNCHANGED outcome
       \/ /\ nav = "raised"
          /\ pc' = "finally"
          /\ outcome' = "RAISED"
          /\ UNCHANGED booking_url
  /\ UNCHANGED <<next_url, courses, username, password, browser, starts, closes, hookSets,
                 url, depth, frames, result, page, calls, navs, cands, login, retval>>
  /\ UNCHANGED <<batchVars, pureVars>>

\* find_booking_url_and_login after the seek: no booking URL ends the run, a
\* booking URL starts the probe chain
AfterSeek ==
  /\ pc = "seek_done"
  /\ IF ~Truthy(booking_url)
     THEN /\ pc' = "finally"
          /\ outcome' = "NO_CANDIDATE"
          /\ UNCHANGED <<url, depth>>
     ELSE /\ pc' = "probe"
          /\ url' = booking_url
          /\ depth' = FirstDepth
          /\ UNCHANGED outcome
  /\ UNCHANGED <<next_url, courses, username, password, browser, starts, closes, hook,
                 hookSets, booking_url, frames, result, page, calls, navs, cands, seekNavs,
                 login, retval>>
  /\ UNCHANGED <<batchVars, pureVars>>

\* _recursive_tee_time_search_arun entered with depth > max_depth
ProbeDepthExceeded ==
  /\ pc = "probe"
  /\ DepthExceeded(depth, max_depth)
  /\ pc' = "return"
  /\ retval' = FALSE
  /\ outcome' = "DEPTH_EXCEEDED"
  /\ UNCHANGED <<next_url, courses, username, password, browser, starts, closes, hook,
                 hookSets, booking_url, url, depth, frames, result, page, calls,
                 navs, cands, seekNavs, login>>
  /\ UNCHANGED <<batchVars, pureVars>>

\* _recursive_tee_time_search_arun: the result dict, set_hook, arun(url)
ProbeNavigate ==
  /\ pc = "probe"
  /\ ~DepthExceeded(depth, max_depth)
  /\ result' = NewResult
  /\ calls' = NoCalls
  /\ next_url' = None
  /\ hook' = "probe"
  /\ hookSets' = hookSets + 1
  /\ navs' = Append(navs, url)
  /\ \E nav \in NavOutcomes :
       \/ /\ nav = "ok"
          /\ \E d \in Doms, a \in ApiTraffic :
               page' = [loaded |-> TRUE, dom |-> d, api |-> a]
          /\ pc' = "hook_detect"
          /\ UNCHANGED outcome
       \/ /\ nav = "failed"
          /\ page' = NoPage
          /\ pc' = "after_arun"
          /\ UNCHANGED outcome
       \/ /\ nav = "raised"
          /\ page' = NoPage
          /\ pc' = "finally"
          /\ outcome' = "RAISED"
  /\ UNCHANGED <<courses, username, password, browser, starts, closes, booking_url,
                 url, depth, frames, cands, seekNavs, login, retval>>
  /\ UNCHANGED <<batchVars, pureVars>>

\* step 3 without its "return page": a hit goes on to the login check
HookDetectFallsThrough ==
  /\ pc = "hook_detect"
  /\ calls' = [calls EXCEPT !.detect = @ + 1]
  /\ \E detected \in DetectAnswers :
       /\ result' = [result EXCEPT !.tee_times_found = detected]
       /\ pc' = "hook_login"
  /\ UNCHANGED <<next_url, courses, username, password, browser, starts, closes, hook,
                 hookSets, booking_url, url, depth, frames, page, navs, cands, seekNavs,
                 login, retval, outcome>>
  /\ UNCHANGED <<batchVars, pureVars>>

\* after_goto, step 3: if await self._detect_tee_times(page)
HookDetect ==
  /\ pc = "hook_detect"
  /\ calls' = [calls EXCEPT !.detect = @ + 1]
  /\ \E detected \in DetectAnswers :
       IF detected
       THEN /\ result' = [result EXCEPT !.tee_times_found = TRUE]
            /\ pc' = "after_arun"
       ELSE /\ pc' = "hook_login"
            /\ UNCHANGED result
  /\ UNCHANGED <<next_url, courses, username, password, browser, starts, closes, hook,
                 hookSets, booking_url, url, depth, frames, page, navs, cands, seekNavs,
                 login, retval, outcome>>
  /\ UNCHANGED <<batchVars, pureVars>>

\* after_goto, step 4: if await self._check_for_login_fields(page), and the
\* test of the credentials
HookCheckLogin ==
  /\ pc = "hook_login"
  /\ calls' = [calls EXCEPT !.login = @ + 1]
  /\ IF CheckForLoginFields(page.dom)
     THEN /\ result' = [result EXCEPT !.login_needed = TRUE]
          /\ pc' = IF HasCredentials(username, password)
                   THEN "hook_perform" ELSE "hook_next"
     ELSE /\ pc' = "hook_next"
          /\ UNCHANGED result
  /\ UNCHANGED <<next_url, courses, username, password, browser, starts, closes, hook,
                 hookSets, booking_url, url, depth, frames, page, navs, cands, seekNavs,
                 login, retval, outcome>>
  /\ UNCHANGED <<batchVars, pureVars>>

\* step 4 with the re-check made only after a successful login
HookPerformLoginChecksResult ==
  /\ pc = "hook_perform"
  /\ calls' = [calls EXCEPT !.perform = @ + 1]
  /\ LET r == PerformLogin(page.dom)
     IN  /\ login' = [performed |-> TRUE,
                      userFilled |-> login.userFilled \/ r.userFilled,
                      passFilled |-> login.passFilled \/ r.passFilled,
                      clicked |-> login.clicked \/ r.clicked]
         /\ IF r.clicked
            THEN \E d \in Doms, a \in ApiTraffic :
                   page' = [loaded |-> TRUE, dom |-> d, api |-> page.api \/ a]
            ELSE UNCHANGED page
         /\ pc' = IF r.ok THEN "hook_recheck" ELSE "hook_next"
  /\ UNCHANGED <<next_url, courses, username, password, browser, starts, closes, hook,
                 hookSets, booking_url, url, depth, frames, result, navs, cands, seekNavs,
                 retval, outcome>>
  /\ UNCHANGED <<batchVars, pureVars>>

\* after_goto, step 4: await self._perform_login(...), its return value dropped,
\* and asyncio.sleep(2); a clicked submit control loads a new page state
HookPerformLogin ==
  /\ pc = "hook_perform"
  /\ calls' = [calls EXCEPT !.perform = @ + 1]
  /\ LET r == PerformLogin(page.dom)
     IN  /\ login' = [performed |-> TRUE,
                      userFilled |-> login.userFilled \/ r.userFilled,
                      passFilled |-> login.passFilled \/ r.passFilled,
                      clicked |-> login.clicked \/ r.clicked]
         /\ IF r.clicked
            THEN \E d \in Doms, a \in ApiTraffic :
                   page' = [loaded |-> TRUE, dom |-> d, api |-> page.api \/ a]
            ELSE UNCHANGED page
  /\ pc' = "hook_recheck"
  /\ UNCHANGED <<next_url, courses, username, password, browser, starts, closes, hook,
                 hookSets, booking_url, url, depth, frames, result, navs, cands, seekNavs,
                 retval, outcome>>
  /\ UNCHANGED <<batchVars, pureVars>>

\* after_goto, step 4: if await self._detect_tee_times(page) after the login
HookRecheck ==
  /\ pc = "hook_recheck"
  /\ calls' = [calls EXCEPT !.detect = @ + 1]
  /\ \E detected \in DetectAnswers :
       IF detected
       THEN /\ result' = [result EXCEPT !.tee_times_found = TRUE]
            /\ pc' = "after_arun"
       ELSE /\ pc' = "hook_next"
            /\ UNCHANGED result
  /\ UNCHANGED <<next_url, courses, username, password, browser, starts, closes, hook,
                 hookSets, booking_url, url, depth, frames, page, navs, cands, seekNavs,
                 login, retval, outcome>>
  /\ UNCHANGED <<batchVars, pureVars>>

\* after_goto, step 5: next_url = await self._find_next_candidate_link(page)
HookNextCandidate ==
  /\ pc = "hook_next"
  /\ calls' = [calls EXCEPT !.next = @ + 1]
  /\ \E href \in ProbeCandidateHrefs :
       /\ next_url' = ResolveFound(href, url)
       /\ result' = IF AcceptNext(next_url', url)
                     THEN [result EXCEPT !.next_url = next_url']
                     ELSE result
       /\ cands' = IF Truthy(next_url') THEN Append(cands, next_url') ELSE cands
  /\ pc' = "after_arun"
  /\ UNCHANGED <<courses, username, password, browser, starts, closes, hook,
                 hookSets, booking_url, url, depth, frames, page, navs, seekNavs,
                 login, retval, outcome>>
  /\ UNCHANGED <<batchVars, pureVars>>

\* recursive call that probes the first booking URL again, not the candidate
AfterArunRestarts ==
  /\ pc = "after_arun"
  /\ page' = NoPage
  /\ calls' = NoCalls
  /\ next_url' = None
  /\ IF result.tee_times_found
     THEN /\ pc' = "return"
          /\ retval' = TRUE
          /\ outcome' = "AVAILABLE"
          /\ UNCHANGED <<url, depth, frames>>
     ELSE IF Truthy(result.next_url)
     THEN /\ pc' = "probe"
          /\ url' = booking_url
          /\ depth' = NextDepth(depth)
          /\ frames' = frames + 1
          /\ UNCHANGED <<retval, outcome>>
     ELSE /\ pc' = "return"
          /\ retval' = FALSE
          /\ outcome' = "EXHAUSTED"
          /\ UNCHANGED <<url, depth, frames>>
  /\ UNCHANGED <<courses, username, password, browser, starts, closes, hook,
                 hookSets, booking_url, result, navs, cands, seekNavs, login>>
  /\ UNCHANGED <<batchVars, pureVars>>

\* _recursive_tee_time_search_arun after arun returned (the hook, its page
\* handle and its helper calls are over): success, the recursive call, or no
\* more candidate links
AfterArun ==
  /\ pc = "after_arun"
  /\ page' = NoPage
  /\ calls' = NoCalls
  /\ next_url' = None
  /\ IF result.tee_times_found
     THEN /\ pc' = "return"
          /\ retval' = TRUE
          /\ outcome' = "AVAILABLE"
          /\ UNCHANGED <<url, depth, frames>>
     ELSE IF Truthy(result.next_url)
     THEN /\ pc' = "probe"
          /\ url' = result.next_url
          /\ depth' = NextDepth(depth)
          /\ frames' = frames + 1
          /\ UNCHANGED <<retval, outcome>>
     ELSE /\ pc' = "return"
          /\ retval' = FALSE
          /\ outcome' = "EXHAUSTED"
          /\ UNCHANGED <<url, depth, frames>>
  /\ UNCHANGED <<courses, username, password, browser, starts, closes, hook,
                 hookSets, booking_url, result, navs, cands, seekNavs, login>>
  /\ UNCHANGED <<batchVars, pureVars>>

\* recursive call without "return": the frame returns None
PassUpDropped(v) == FALSE

\* the value a frame returns for the value of the frame it recursed into
PassUp(v) == v

\* "return await self._recursive_tee_time_search_arun(...)" of a suspended
\* frame, and at the top "found = ..." of find_booking_url_and_login
Return ==
  /\ pc = "return"
  /\ IF frames > 0
     THEN /\ frames' = frames - 1
          /\ retval' = PassUp(retval)
          /\ UNCHANGED pc
     ELSE /\ pc' = "finally"
          /\ UNCHANGED <<frames, retval>>
  /\ UNCHANGED <<next_url, courses, username, password, browser, starts, closes, hook,
                 hookSets, booking_url, url, depth, result, page, calls, navs, cands,
                 seekNavs, login, outcome>>
  /\ UNCHANGED <<batchVars, pureVars>>

\* finally: await crawler.close()
Finally ==
  /\ pc = "finally"
  /\ browser' = "closed"
  /\ closes' = closes + 1
  /\ pc' = "done"
  /\ UNCHANGED <<next_url, courses, username, password, starts, hook, hookSets, booking_url,
                 url, depth, frames, result, page, calls, navs, cands, seekNavs, login,
                 retval, outcome>>
  /\ UNCHANGED <<batchVars, pureVars>>

(***************************************************************************)
(* The batch updaters update_course_booking_urls and                       *)
(* update_course_booking_urls_simple.                                      *)
(***************************************************************************)
\* course_name = url.split('//')[-1].split('/')[0].replace('www.', ''), then
\* .title().replace('-', ' '): the host token of the URL
NameFromUrl(u) == <<u[2]>>

\* datetime.now().isoformat()
Now == <<"now">>

\* 'rate limit' in str(e).lower()
IsRateLimit(msg) == SubTok("rate limit", Lower(msg))

\* messages of the errors a crawl can end with
ErrorMessages == { "Rate Limit exceeded", "Timeout 30000ms exceeded" }

\* result.extracted_content of a simple crawl: nothing, or markup phrases
SimpleContents == { {}, {"welcome"}, {"Book Online"} }

\* any(pattern in url_to_crawl.lower() for pattern in ['foreup', 'teeitup', 'book', 'reserve'])
UrlIsBookingSystem(u) == AnyIn({"foreup", "teeitup", "book", "reserve"}, u)

\* the for/else over booking_patterns of _process_course_simple
ContentHasBookingPattern(content) ==
  \E p \in {"foreup.com", "teeitup.golf", "book", "reserve", "tee time", "teetime"} :
    InContent(p, content)

\* _process_course_simple(crawler, course): the record after the call, for
\* what arun did ("ok", "failed", "raised") and the extracted content
ProcessCourseSimple(course, nav, content) ==
  IF nav /= "ok"
  THEN [course EXCEPT !.booking_url = None]
  ELSE LET named == [course EXCEPT !.name = NameFromUrl(course.url),
                                   !.last_updated = Now]
       IN  IF UrlIsBookingSystem(course.url)
           THEN [named EXCEPT !.booking_url = course.url]
           ELSE IF content /= {} /\ ContentHasBookingPattern(content)
           THEN [named EXCEPT !.booking_url = course.url]
           ELSE [named EXCEPT !.booking_url = None]

\* json.loads(result.extracted_content) of an LLM crawl: not JSON, JSON that is
\* no dict, or a dict with the extracted fields
Extractions ==
  { [kind |-> "invalid", course_name |-> None, booking_url |-> None],
    [kind |-> "list", course_name |-> None, booking_url |-> None] } \cup
  { [kind |-> "dict", course_name |-> n, booking_url |-> b] :
      n \in { None, <<"Pine", "Hills">> },
      b \in { None, <<"http", "foreup.com", "/", "pine">> } }

\* _process_course_llm(crawler, course, crawl_config) when arun succeeded: the
\* record after the call
ProcessCourseLlm(course, x) ==
  IF x.kind = "dict"
  THEN [course EXCEPT
          !.name = IF Truthy(x.course_name) THEN x.course_name
                   ELSE NameFromUrl(course.url),
          !.booking_url = x.booking_url,
          !.last_updated = Now]
  ELSE [course EXCEPT !.name = NameFromUrl(course.url), !.booking_url = None]

\* update_course_booking_urls / update_course_booking_urls_simple up to the
\* loop: _load_courses, and "async with AsyncWebCrawler(...)" entered
BatchLoad ==
  /\ pc = "load"
  /\ entry \in {"update", "update_simple"}
  /\ courses' = LoadFile(file)
  /\ IF courses' = <<>>
     THEN /\ pc' = "done"
          /\ outcome' = "NO_COURSES"
          /\ UNCHANGED <<browser, starts, idx>>
     ELSE /\ pc' = "batch_loop"
          /\ browser' = "open"
          /\ starts' = starts + 1
          /\ idx' = 1
          /\ UNCHANGED outcome
  /\ UNCHANGED <<entry, use_llm, file, batchNavs, signals, closes, engineVars, pureVars>>

\* for course in courses: if not course.get('url'): continue
BatchSkip ==
  /\ pc = "batch_loop"
  /\ idx <= Len(courses)
  /\ ~Truthy(Get(courses[idx].url))
  /\ idx' = idx + 1
  /\ UNCHANGED <<entry, use_llm, file, batchNavs, signals, pc, courses, browser, starts,
                 closes, outcome, engineVars, pureVars>>

\* no exception
NoError == ""

\* the exception e that left the processing of a course is a rate-limit error
RateLimited(e) == e /= NoError /\ IsRateLimit(e)

\* the courses whose processing raised a rate-limit error, after course i
Signalled(i, e) == IF RateLimited(e) THEN Append(signals, i) ELSE signals

\* the exception that leaves _process_course_simple: "except Exception" around
\* its whole body lets none out
EscapesSimple(nav, msg) == NoError

\* the exception that leaves _process_course_llm: what arun raised, or the
\* rate-limit exception raised for a failed result whose error names a rate limit
EscapesLlm(nav, msg) ==
  IF nav = "raised" THEN msg
  ELSE IF nav = "failed" /\ IsRateLimit(msg)
  THEN "Rate limit reached - stopping execution"
  ELSE NoError

\* except clause that goes on with the next course after every exception
AbortsRunNever(e) == FALSE

\* the except clause of the loop of update_course_booking_urls: "return" on a
\* rate-limit exception
AbortsRun(e) == e /= NoError /\ IsRateLimit(e)

\* one course of the loop processed by _process_course_simple, which catches
\* every exception, then asyncio.sleep(3)
BatchProcessSimple ==
  /\ pc = "batch_loop"
  /\ entry = "update_simple" \/ (entry = "update" /\ ~use_llm)
  /\ idx <= Len(courses)
  /\ Truthy(Get(courses[idx].url))
  /\ batchNavs' = Append(batchNavs, idx)
  /\ \E nav \in NavOutcomes :
       \/ /\ nav = "ok"
          /\ \E content \in SimpleContents :
               courses' = [courses EXCEPT ![idx] = ProcessCourseSimple(@, nav, content)]
          /\ UNCHANGED signals
       \/ /\ nav \in {"failed", "raised"}
          /\ \E msg \in ErrorMessages :
               /\ signals' = Signalled(idx, EscapesSimple(nav, msg))
               /\ ~AbortsRun(EscapesSimple(nav, msg))
          /\ courses' = [courses EXCEPT ![idx] = ProcessCourseSimple(@, nav, {})]
  /\ idx' = idx + 1
  /\ UNCHANGED <<entry, use_llm, file, pc, browser, starts, closes, outcome,
                 engineVars, pureVars>>

\* one course of the loop of update_course_booking_urls processed by
\* _process_course_llm inside try/except: a rate-limit error leaves the loop by
\* "return", any other exception by "continue"
BatchProcessLlm ==
  /\ pc = "batch_loop"
  /\ entry = "update" /\ use_llm
  /\ idx <= Len(courses)
  /\ Truthy(Get(courses[idx].url))
  /\ batchNavs' = Append(batchNavs, idx)
  /\ \E nav \in NavOutcomes :
       \/ /\ nav = "ok"
          /\ \E x \in Extractions :
               courses' = [courses EXCEPT ![idx] = ProcessCourseLlm(@, x)]
          /\ idx' = idx + 1
          /\ UNCHANGED <<pc, outcome, signals>>
       \/ /\ nav \in {"failed", "raised"}
          /\ \E msg \in ErrorMessages :
               /\ signals' = Signalled(idx, EscapesLlm(nav, msg))
               /\ IF AbortsRun(EscapesLlm(nav, msg))
                  THEN /\ pc' = "batch_abort"
                       /\ outcome' = "RATE_LIMIT"
                       /\ UNCHANGED idx
                  ELSE /\ idx' = idx + 1
                       /\ UNCHANGED <<pc, outcome>>
          /\ UNCHANGED courses
  /\ UNCHANGED <<entry, use_llm, file, browser, starts, closes, engineVars, pureVars>>

\* the loop is over: the "async with" block is left and closes the crawler
BatchExit ==
  /\ pc = "batch_loop"
  /\ idx > Len(courses)
  /\ browser' = "closed"
  /\ closes' = closes + 1
  /\ pc' = "batch_save"
  /\ UNCHANGED <<batchVars, courses, starts, outcome, engineVars, pureVars>>

\* "return" on a rate limit that saves the records first
BatchAbortSaves ==
  /\ pc = "batch_abort"
  /\ file' = [exists |-> TRUE, records |-> courses]
  /\ browser' = "closed"
  /\ closes' = closes + 1
  /\ pc' = "done"
  /\ UNCHANGED <<entry, use_llm, idx, batchNavs, signals, courses, starts, outcome,
                 engineVars, pureVars>>

\* "return" on a rate limit that leaves the crawler open
BatchAbortLeaks ==
  /\ pc = "batch_abort"
  /\ pc' = "done"
  /\ UNCHANGED <<batchVars, courses, browser, starts, closes, outcome, engineVars, pureVars>>

\* "return" on a rate limit: the "async with" block is left and closes the
\* crawler; nothing is saved
BatchAbort ==
  /\ pc = "batch_abort"
  /\ browser' = "closed"
  /\ closes' = closes + 1
  /\ pc' = "done"
  /\ UNCHANGED <<batchVars, courses, starts, outcome, engineVars, pureVars>>

\* self._save_courses(courses)
BatchSave ==
  /\ pc = "batch_save"
  /\ file' = [exists |-> TRUE, records |-> courses]
  /\ outcome' = "SAVED"
  /\ pc' = "done"
  /\ UNCHANGED <<entry, use_llm, idx, batchNavs, signals, courses, browser, starts, closes,
                 engineVars, pureVars>>

(***************************************************************************)
(* The script tee_time_crawler.py: update_course_booking_urls.             *)
(***************************************************************************)
\* hrefs of result.links (internal + external) of a crawled page
ScriptLinks ==
  { <<"http", "foreup.com", "/", "booking">>, <<"http", "foreup.com">>, SiteUrl(1) }

ScriptLinkLists == SeqsUpTo(ScriptLinks, MaxAnchors)

\* 'foreup' in link['href'].lower() and 'booking' in link['href'].lower()
IsForeupBooking(href) == InLower("foreup", href) /\ InLower("booking", href)

\* the href the loop over all_links stops at, None when it runs to its end
ScriptBookingHref(links) ==
  LET i == FirstIndex(links, IsForeupBooking)
  IN  IF i > 0 THEN links[i] ELSE None

ScriptBookingHrefs == { ScriptBookingHref(links) : links \in ScriptLinkLists }

\* the body of "if result.success": the record after it, for whether
\* result.links is there and not empty, and the booking href found in it
ProcessCourseScript(course, hasLinks, href) ==
  IF ~hasLinks THEN course
  ELSE [course EXCEPT !.booking_url = IF href /= None THEN href ELSE @,
                      !.last_updated = Now]

\* open('golf_courses.json') and "async with AsyncWebCrawler(...)" entered;
\* FileNotFoundError returns
ScriptLoad ==
  /\ pc = "load"
  /\ entry = "script"
  /\ IF ~file.exists
     THEN /\ pc' = "done"
          /\ outcome' = "NO_COURSES"
          /\ UNCHANGED <<courses, browser, starts, idx>>
     ELSE /\ courses' = file.records
          /\ pc' = "script_loop"
          /\ browser' = "open"
          /\ starts' = starts + 1
          /\ idx' = 1
          /\ UNCHANGED outcome
  /\ UNCHANGED <<entry, use_llm, file, batchNavs, signals, closes, engineVars, pureVars>>

\* for course in courses: if not course['url']: continue; the subscript raises
\* KeyError for a record without the key
ScriptSkip ==
  /\ pc = "script_loop"
  /\ idx <= Len(courses)
  /\ IF courses[idx].url = Absent
     THEN /\ pc' = "script_raise"
          /\ outcome' = "KEY_ERROR"
          /\ UNCHANGED idx
     ELSE /\ ~Truthy(courses[idx].url)
          /\ idx' = idx + 1
          /\ UNCHANGED <<pc, outcome>>
  /\ UNCHANGED <<entry, use_llm, file, batchNavs, signals, courses, browser, starts,
                 closes, engineVars, pureVars>>

\* one course of the loop: crawler.arun(url=course['url']) outside any try, and
\* the search of result.links
ScriptProcess ==
  /\ pc = "script_loop"
  /\ idx <= Len(courses)
  /\ courses[idx].url /= Absent
  /\ Truthy(courses[idx].url)
  /\ batchNavs' = Append(batchNavs, idx)
  /\ \E nav \in NavOutcomes :
       \/ /\ nav = "ok"
          /\ \E hasLinks \in BOOLEAN, href \in ScriptBookingHrefs :
               courses' = [courses EXCEPT ![idx] = ProcessCourseScript(@, hasLinks, href)]
          /\ idx' = idx + 1
          /\ UNCHANGED <<signals, pc, outcome>>
       \/ /\ nav = "failed"
          /\ idx' = idx + 1
          /\ UNCHANGED <<signals, courses, pc, outcome>>
       \/ /\ nav = "raised"
          /\ \E msg \in ErrorMessages : signals' = Signalled(idx, msg)
          /\ pc' = "script_raise"
          /\ outcome' = "RAISED"
          /\ UNCHANGED <<courses, idx>>
  /\ UNCHANGED <<entry, use_llm, file, browser, starts, closes, engineVars, pureVars>>

\* after the loop, inside the "async with" block: json.dump(courses, f)
ScriptSave ==
  /\ pc = "script_loop"
  /\ idx > Len(courses)
  /\ file' = [exists |-> TRUE, records |-> courses]
  /\ outcome' = "SAVED"
  /\ pc' = "script_close"
  /\ UNCHANGED <<entry, use_llm, idx, batchNavs, signals, courses, browser, starts,
                 closes, engineVars, pureVars>>

\* the "async with" block is left, at its end or by an exception, and closes
\* the crawler
ScriptClose ==
  /\ pc \in {"script_close", "script_raise"}
  /\ browser' = "closed"
  /\ closes' = closes + 1
  /\ pc' = "done"
  /\ UNCHANGED <<batchVars, courses, starts, outcome, engineVars, pureVars>>

(***************************************************************************)
(* The helpers called on their own, on the pages of the model.             *)
(***************************************************************************)
runVars == <<batchVars, engineVars, pc, courses, browser, starts, closes, outcome>>

PureInit ==
  /\ entry = "helper"
  /\ use_llm = FALSE
  /\ file = MissingFile
  /\ username = None
  /\ password = None
  /\ idx = 0
  /\ batchNavs = <<>>
  /\ signals = <<>>
  /\ cands = <<>>
  /\ pc = "done"
  /\ courses = <<>>
  /\ browser = "none"
  /\ starts = 0
  /\ closes = 0
  /\ hook = "none"
  /\ hookSets = 0
  /\ booking_url = None
  /\ url = None
  /\ depth = 0
  /\ frames = 0
  /\ result = NewResult
  /\ page = NoPage
  /\ calls = NoCalls
  /\ next_url = None
  /\ navs = <<>>
  /\ seekNavs = 0
  /\ login = NoLogin
  /\ retval = FALSE
  /\ outcome = "none"
  /\ \/ \E x \in FinderInputs :
          call = [fn |-> "find_booking_url_on_page", arg |-> x,
                  returned |-> FALSE, out |-> <<>>, ops |-> <<>>,
                  trace |-> <<>>]
     \/ \E d \in LoginDoms :
          call = [fn |-> "perform_login", arg |-> d,
                  returned |-> FALSE, out |-> <<>>, ops |-> <<>>,
                  trace |-> <<>>]
     \/ \E e \in ClickInputs :
          call = [fn |-> "click_with_navigation_handling", arg |-> e,
                  returned |-> FALSE, out |-> <<>>, ops |-> <<>>,
                  trace |-> <<>>]
     \/ \E pg \in LoginPages :
          /\ pg.dom \cap pg.stuck = {}
          /\ call = [fn |-> "perform_login_log", arg |-> pg,
                     returned |-> FALSE, out |-> <<>>, ops |-> <<>>,
                  trace |-> <<>>]
     \/ \E x \in CandidateInputs :
          call = [fn |-> "find_next_candidate_link", arg |-> x,
                  returned |-> FALSE, out |-> <<>>, ops |-> <<>>,
                  trace |-> <<>>]
     \/ \E content \in Contents :
          call = [fn |-> "detect_tee_times", arg |-> content,
                  returned |-> FALSE, out |-> <<>>, ops |-> <<>>,
                  trace |-> <<>>]

\* await self._find_booking_url_on_page(page)
ApplyFindBookingUrlOnPage ==
  /\ call.fn = "find_booking_url_on_page"
  /\ ~call.returned
  /\ call' = [call EXCEPT !.returned = TRUE,
                          !.out = FindBookingUrlOnPage(call.arg.anchors, call.arg.url)]
  /\ UNCHANGED runVars

\* await self._perform_login(page, username, password, ...)
ApplyPerformLogin ==
  /\ call.fn = "perform_login"
  /\ ~call.returned
  /\ call' = [call EXCEPT !.returned = TRUE, !.out = PerformLogin(call.arg)]
  /\ UNCHANGED runVars

\* await self._click_with_navigation_handling(page, element, element_desc)
ApplyClickWithNavigationHandling ==
  /\ call.fn = "click_with_navigation_handling"
  /\ ~call.returned
  /\ call' = [call EXCEPT !.returned = TRUE,
                          !.out = ClickWithNavigationHandling(call.arg),
                          !.ops = ClickAttempts(call.arg),
                          !.trace = @ \o ClickTrace(call.arg)]
  /\ UNCHANGED runVars

\* number of calls of _click_with_navigation_handling made on the page
ClicksMade == Len(SelectSeq(call.trace, LAMBDA o : o = "on"))

\* _recursive_login_search goes on with the next element of the same page: one
\* more call of _click_with_navigation_handling
ClickAgain ==
  /\ call.fn = "click_with_navigation_handling"
  /\ call.returned
  /\ ClicksMade < MaxClicks
  /\ \E e \in ClickInputs :
       call' = [fn |-> call.fn, arg |-> e, returned |-> FALSE, out |-> <<>>,
                ops |-> <<>>, trace |-> call.trace]
  /\ UNCHANGED runVars

\* await self._perform_login(page, username, password, ...) on the same page in
\* two runs that differ in the credentials: the lines each run prints
ApplyPerformLoginTwoRuns ==
  /\ call.fn = "perform_login_log"
  /\ ~call.returned
  /\ call' = [call EXCEPT
                !.returned = TRUE,
                !.out = [r \in 1..2 |->
                           PerformLoginLog(call.arg.dom, call.arg.stuck,
                                           CredentialPairs[r].username,
                                           CredentialPairs[r].password)]]
  /\ UNCHANGED runVars

\* after_goto, step 5 on its own: next_url = await
\* self._find_next_candidate_link(page), and result['next_url'] = next_url
\* if next_url and next_url != url
ApplyFindNextCandidateLink ==
  /\ call.fn = "find_next_candidate_link"
  /\ ~call.returned
  /\ LET found == FindNextCandidateLink(call.arg.anchors, call.arg.url)
     IN  call' = [call EXCEPT
                    !.returned = TRUE,
                    !.out = [next_url |-> found,
                             result_next_url |->
                               IF AcceptNext(found, call.arg.url) THEN found ELSE None]]
  /\ UNCHANGED runVars

\* await self._detect_tee_times(page)
ApplyDetectTeeTimes ==
  /\ call.fn = "detect_tee_times"
  /\ ~call.returned
  /\ call' = [call EXCEPT !.returned = TRUE, !.out = DetectTeeTimes(call.arg)]
  /\ UNCHANGED runVars

PureNext ==
  \/ ApplyFindBookingUrlOnPage
  \/ ApplyPerformLogin
  \/ ApplyClickWithNavigationHandling
  \/ ApplyDetectTeeTimes
  \/ ApplyPerformLoginTwoRuns
  \/ ApplyFindNextCandidateLink
  \/ ClickAgain

PureSpec == PureInit /\ [][PureNext]_vars

Next ==
  \/ LoadCourses
  \/ SeekBookingUrl
  \/ AfterSeek
  \/ ProbeDepthExceeded
  \/ ProbeNavigate
  \/ HookDetect
  \/ HookCheckLogin
  \/ HookPerformLogin
  \/ HookRecheck
  \/ HookNextCandidate
  \/ AfterArun
  \/ Return
  \/ Finally
  \/ BatchLoad
  \/ BatchSkip
  \/ BatchProcessSimple
  \/ BatchProcessLlm
  \/ BatchExit
  \/ BatchAbort
  \/ BatchSave
  \/ ScriptLoad
  \/ ScriptSkip
  \/ ScriptProcess
  \/ ScriptSave
  \/ ScriptClose

Spec == Init /\ [][Next]_vars

\* every await of the run returns: the event loop resumes the coroutine
FairSpec == Spec /\ WF_vars(Next)

(***************************************************************************)
(* Properties of the discovery engine.                                     *)
(***************************************************************************)
HookPcs == { "hook_detect", "hook_login", "hook_perform", "hook_recheck", "hook_next" }

\* C1: a probe call entered with depth > max_depth returns False (depth
\* exceeded) without registering a hook, without navigating and without any
\* availability, login-wall or next-candidate check.
C1_DepthExceededReturnsAtOnce ==
  [][ (pc = "probe" /\ depth > max_depth) =>
        /\ pc' = "return"
        /\ retval' = FALSE
        /\ outcome' = "DEPTH_EXCEEDED"
        /\ UNCHANGED <<hook, hookSets, navs, seekNavs, page, calls, next_url,
                       result, login>> ]_vars

\* a probe call at depth max_depth + 1 has returned
C1_Witness == pc = "return" /\ depth > max_depth /\ outcome = "DEPTH_EXCEEDED"

\* some navigation is issued by the step
Navigates ==
  \/ navs' /= navs
  \/ seekNavs' /= seekNavs
  \/ batchNavs' /= batchNavs

\* C3: a run that acquires a browser acquires it once and has closed it when
\* it returns or raises, on every exit path (no booking candidate, availability
\* confirmed, links exhausted, depth exceeded, rate-limit abort, exception of a
\* navigation); navigations happen only while it is open.
C3_BrowserClosedOnEveryExit ==
  /\ [](starts <= 1 /\ closes <= starts)
  /\ [](browser = "open" <=> (starts = 1 /\ closes = 0))
  /\ [](pc = "done" => browser /= "open")
  /\ [](pc = "done" => closes = starts)
  /\ [](pc = "done" /\ outcome \notin {"NO_COURSES", "KEY_ERROR"} => starts = 1 /\ closes = 1)
  /\ [][Navigates => browser = "open" /\ browser' = "open"]_vars

\* a discovery run ended by an exception of a probe navigation, browser closed
C3_Witness ==
  /\ pc = "done"
  /\ outcome = "RAISED"
  /\ navs /= <<>>
  /\ browser = "closed"
  /\ closes = 1

\* position of the run in its control flow, larger is earlier
PcRank ==
  CASE pc = "load" -> 12
    [] pc = "seek" -> 11
    [] pc = "seek_done" -> 10
    [] pc = "probe" -> 9
    [] pc = "hook_detect" -> 8
    [] pc = "hook_login" -> 7
    [] pc = "hook_perform" -> 6
    [] pc = "hook_recheck" -> 5
    [] pc = "hook_next" -> 4
    [] pc = "after_arun" -> 3
    [] pc = "return" -> 2
    [] pc = "finally" -> 1
    [] OTHER -> 0

\* steps the run can still take at most, up to a factor
Measure == (max_depth + 2 - depth) * 20 + PcRank + frames

TerminalOutcomes == { "AVAILABLE", "EXHAUSTED", "DEPTH_EXCEEDED", "NO_CANDIDATE" }

\* C2: every discovery run whose awaits return reaches a terminal outcome
\* (AVAILABLE, EXHAUSTED, DEPTH_EXCEEDED, no candidate at seek; an exception of
\* a navigation ends it too), whatever the pages link to: each step strictly
\* lowers a bounded measure, so no link structure keeps the run going.
C2_Terminates ==
  /\ <>(pc = "done")
  /\ [](entry = "discover" /\ pc = "done" /\ courses /= <<>>
          /\ outcome \notin {"RAISED", "KEY_ERROR"}
          => outcome \in TerminalOutcomes)
  /\ [](Measure >= 0)
  /\ [][entry = "discover" => Measure' < Measure]_vars

\* a finished run in which two pages named each other until the depth cap
C2_Witness ==
  /\ pc = "done"
  /\ outcome = "DEPTH_EXCEEDED"
  /\ Len(navs) >= 4
  /\ navs[1] = navs[3]
  /\ navs[2] = navs[4]

\* C4: without a booking candidate on the home page the run fails without a
\* probe navigation; with one, the probe chain is started once, at depth 0,
\* with that URL.
C4_SeekDecides ==
  /\ [](outcome = "NO_CANDIDATE" => navs = <<>> /\ hookSets = 0)
  /\ [](navs /= <<>> => Truthy(booking_url) /\ navs[1] = booking_url)
  /\ [](pc = "probe" /\ frames = 0 => depth = 0 /\ url = booking_url)
  /\ [][ pc = "seek_done" =>
           IF Truthy(booking_url)
           THEN pc' = "probe" /\ frames' = 0 /\ navs' = <<>>
           ELSE pc' = "finally" /\ outcome' = "NO_CANDIDATE" /\ navs' = <<>> ]_vars
  /\ [][ pc' = "probe" /\ frames' = 0 => pc = "seek_done" ]_vars

\* the first probe step has loaded the booking URL found on the home page
C4_Witness ==
  /\ pc = "hook_detect"
  /\ depth = 0
  /\ frames = 0
  /\ navs = <<booking_url>>
  /\ seekNavs = 1

\* C5: the checks of a probe step run in the order availability, login wall,
\* next candidate; a page that shows availability ends the step AVAILABLE
\* without a login-wall check, a login or a next-candidate search, and no
\* navigation follows.
C5_AvailabilityFirst ==
  /\ [](pc \in HookPcs \cup {"after_arun"} =>
          /\ (calls.login > 0 => calls.detect > 0)
          /\ (calls.perform > 0 => calls.login > 0)
          /\ (calls.next > 0 => calls.login > 0))
  /\ [](pc = "after_arun" /\ result.tee_times_found /\ calls.detect = 1 =>
          calls.login = 0 /\ calls.perform = 0 /\ calls.next = 0)
  /\ [][ pc = "after_arun" /\ result.tee_times_found =>
           pc' = "return" /\ retval' = TRUE /\ outcome' = "AVAILABLE" ]_vars
  /\ [][ outcome = "AVAILABLE" => navs' = navs /\ seekNavs' = seekNavs ]_vars

\* the first check of a probe step found availability
C5_Witness ==
  /\ pc = "after_arun"
  /\ result.tee_times_found
  /\ calls = [NoCalls EXCEPT !.detect = 1]

C7_NoCredentialsNoLogin ==
  /\ [](~(Truthy(username) /\ Truthy(password)) =>
          /\ login = NoLogin
          /\ calls.perform = 0
          /\ calls.detect <= 1
          /\ pc \notin {"hook_perform", "hook_recheck"})
  /\ [][ (/\ pc = "hook_login"
          /\ ~(Truthy(username) /\ Truthy(password))) =>
           /\ pc' = "hook_next"
           /\ result'.tee_times_found = FALSE
           /\ UNCHANGED <<url, depth, frames, navs, page, login>> ]_vars

\* a login wall was met without credentials and the step searches on
C7_Witness ==
  /\ ~(Truthy(username) /\ Truthy(password))
  /\ Truthy(username) \/ Truthy(password)
  /\ pc = "hook_next"
  /\ result.login_needed
  /\ CheckForLoginFields(page.dom)

\* C8: on a login wall with credentials _perform_login is called once in the
\* frame and the availability check is re-run once, whatever _perform_login
\* returned; a positive re-check ends the step AVAILABLE, a negative one goes on
\* to the next-candidate search.
C8_LoginThenRecheckOnce ==
  /\ [](calls.perform <= 1 /\ calls.detect <= 2 /\ calls.login <= 1 /\ calls.next <= 1)
  /\ [](pc \in {"hook_next", "after_arun"} /\ result.login_needed
          /\ Truthy(username) /\ Truthy(password)
          => calls.perform = 1 /\ calls.detect = 2)
  /\ [](pc \in {"hook_next", "after_arun"} /\ ~result.login_needed /\ page.loaded
          => calls.perform = 0 /\ calls.detect = 1)
  /\ [](pc = "after_arun" /\ calls.detect = 2 =>
          IF result.tee_times_found THEN calls.next = 0 ELSE calls.next = 1)
  /\ [][ pc = "hook_perform" => pc' = "hook_recheck" ]_vars
  /\ [][ pc = "hook_recheck" =>
           \/ pc' = "after_arun" /\ result'.tee_times_found
           \/ pc' = "hook_next" /\ ~result'.tee_times_found ]_vars

\* a failed login (no submit control clicked) was followed by a positive re-check
C8_Witness ==
  /\ pc = "after_arun"
  /\ result.login_needed
  /\ result.tee_times_found
  /\ calls.perform = 1
  /\ calls.detect = 2
  /\ login.performed
  /\ ~login.clicked

\* C9: a step that did not confirm availability recurses exactly when
\* _find_next_candidate_link gave a URL other than the step's own, and then
\* probes that URL at depth + 1; otherwise it ends EXHAUSTED and nothing more
\* is navigated.
C9_RecurseIffDistinctCandidate ==
  /\ [](pc = "after_arun" =>
          result.next_url =
            IF calls.next = 1 /\ next_url /= None /\ next_url /= url
            THEN next_url ELSE None)
  /\ [][ pc = "after_arun" /\ ~result.tee_times_found =>
           IF calls.next = 1 /\ next_url /= None /\ next_url /= url
           THEN /\ pc' = "probe"
                /\ url' = next_url
                /\ depth' = depth + 1
                /\ frames' = frames + 1
           ELSE /\ pc' = "return"
                /\ retval' = FALSE
                /\ outcome' = "EXHAUSTED"
                /\ UNCHANGED <<url, depth, frames>> ]_vars
  /\ [][ pc' = "probe" /\ frames' > 0 => pc = "after_arun" ]_vars
  /\ [][ outcome = "EXHAUSTED" => navs' = navs ]_vars

\* the next-candidate search gave the step's own URL: the step will end
C9_Witness ==
  /\ pc = "after_arun"
  /\ calls.next = 1
  /\ next_url = url
  /\ result.next_url = None

\* C10: with max_depth 5 the probe at depth 5 is executed: a chain of pages
\* that each offer a new candidate loads six pages (depths 0..5), a sixth page
\* without candidate gives EXHAUSTED, and only the seventh call, at depth 6,
\* gives DEPTH_EXCEEDED.
C10_SixProbesThenDepthExceeded ==
  /\ max_depth = 5
  /\ Len(navs) <= 6
  /\ depth <= 6
  /\ (pc \in HookPcs \cup {"after_arun"} => depth <= 5 /\ Len(navs) = depth + 1)
  /\ (pc = "probe" => Len(navs) = depth)
  /\ (outcome = "DEPTH_EXCEEDED" => depth = 6 /\ Len(navs) = 6)
  /\ (outcome = "EXHAUSTED" => depth <= 5)

\* the sixth page, at depth 5, had no candidate: EXHAUSTED after six loads
C10_Witness ==
  /\ outcome = "EXHAUSTED"
  /\ depth = 5
  /\ Len(navs) = 6
  /\ pc = "done"

\* the elements of a sequence are pairwise different
Distinct(s) == \A i, j \in 1..Len(s) : i /= j => s[i] /= s[j]

\* the first booking URL followed by the URLs _find_next_candidate_link
\* returned to the probe steps of the run
CandidateChain == <<booking_url>> \o cands

\* C11: the probe steps navigate the first booking URL and then the candidates
\* in the order they were returned, so when the candidates are pairwise distinct
\* and distinct from the first booking URL no URL is navigated twice in a run.
C11_DistinctCandidatesNoRevisit ==
  /\ Len(navs) <= Len(CandidateChain)
  /\ navs = SubSeq(CandidateChain, 1, Len(navs))
  /\ (Distinct(CandidateChain) => Distinct(navs))

\* a chain of three different URLs was navigated
C11_Witness ==
  /\ Len(navs) = 3
  /\ Distinct(CandidateChain)
  /\ Len(cands) >= 2
  /\ pc = "hook_detect"

(***************************************************************************)
(* Properties of the helpers.                                              *)
(***************************************************************************)
\* the call of the helper has returned
Returned(fn) == call.fn = fn /\ call.returned

\* positions of the anchors of the call's page that satisfy Test
AnchorsWhere(Test(_)) ==
  { i \in 1..Len(call.arg.anchors) : Test(call.arg.anchors[i]) }

\* C12: _find_booking_url_on_page returns a priority-brand link whenever the
\* page has one (the first of them), also when generic booking links come
\* earlier in the document; a generic link (the first not excluded) only when no
\* anchor matches the priority list; None only when neither pass matches.
C12_PriorityBeforeGeneric ==
  Returned("find_booking_url_on_page") =>
    LET l == call.arg.anchors
        prio == AnchorsWhere(IsPriorityAnchor)
        gen == AnchorsWhere(IsGeneralAnchor)
    IN  /\ prio /= {} =>
              /\ \E i \in prio : /\ call.out = Resolve(call.arg.url, l[i].href)
                                 /\ \A j \in prio : i <= j
              /\ AnyIn(priority_patterns, call.out)
        /\ (prio = {} /\ gen /= {}) =>
              \E i \in gen : /\ call.out = Resolve(call.arg.url, l[i].href)
                             /\ \A j \in gen : i <= j
        /\ (call.out /= None /\ ~AnyIn(priority_patterns, call.out)) => prio = {}
        /\ call.out = None <=> (prio = {} /\ gen = {})

\* a generic booking link came first in the document, the priority link after
\* it was returned
C12_Witness ==
  /\ Returned("find_booking_url_on_page")
  /\ Len(call.arg.anchors) = 2
  /\ IsGeneralAnchor(call.arg.anchors[1])
  /\ ~IsPriorityAnchor(call.arg.anchors[1])
  /\ IsPriorityAnchor(call.arg.anchors[2])
  /\ call.out = call.arg.anchors[2].href

\* C13 (as claimed): _find_booking_url_on_page never returns a link that matches
\* the exclusion list, whatever else the link matches.
C13_NeverReturnsExcluded ==
  (Returned("find_booking_url_on_page") /\ call.out /= None)
    => ~AnyIn(exclude_patterns, call.out)

\* the kinds of the page operations of a login, in the order made
OpKinds(ops) == [i \in 1..Len(ops) |-> ops[i].op]

LoginSteps == <<"fill_username", "fill_password", "click">>

\* C14: _perform_login fills the username, then the password, then clicks
\* submit, each at most once; it stops at the first step for which no selector
\* works (no username field: nothing filled or clicked; no password field: no
\* click) and returns True only when all three were made.
C14_LoginStepsInOrder ==
  Returned("perform_login") =>
    LET o == call.out
        k == OpKinds(o.ops)
    IN  /\ Len(k) <= 3
        /\ k = SubSeq(LoginSteps, 1, Len(k))
        /\ o.ok <=> Len(k) = 3
        /\ ~AnySelector(login_selectors, call.arg) => k = <<>> /\ ~o.ok
        /\ ~AnySelector(password_selectors, call.arg) => Len(k) <= 1 /\ ~o.ok
        /\ ~AnySelector(submit_selectors, call.arg) => Len(k) <= 2 /\ ~o.ok
        /\ \A i \in 1..Len(k) : o.ops[i].selector \in call.arg
        /\ o.userFilled <=> Len(k) >= 1
        /\ o.passFilled <=> Len(k) >= 2
        /\ o.clicked <=> Len(k) = 3

\* a page with a password field and a submit button but no username field:
\* nothing was filled or clicked
C14_Witness ==
  /\ Returned("perform_login")
  /\ ~AnySelector(login_selectors, call.arg)
  /\ AnySelector(password_selectors, call.arg)
  /\ AnySelector(submit_selectors, call.arg)
  /\ call.out.ops = <<>>
  /\ ~call.out.ok

\* C15 (as claimed): _click_with_navigation_handling returns False only if all
\* four click approaches failed, whatever the waits after the click do.
C15_FalseOnlyIfAllClicksFail ==
  (Returned("click_with_navigation_handling") /\ call.out = FALSE)
    => LET e == call.arg
       IN  ~e.visible /\ ~e.force /\ ~e.js /\ ~(e.href /\ e.goto)

(***************************************************************************)
(* Properties of the runs over the venue file.                             *)
(***************************************************************************)
BatchEntries == { "update", "update_simple", "script" }

\* the loop over the records is running or was left without a save, so the
\* venue file still holds the records as persisted before the run
BeforeSave ==
  /\ entry \in BatchEntries
  /\ pc \in { "batch_loop", "batch_abort", "script_loop", "script_raise" }

\* the record has a url: the key is there and its value is not empty
HasUrl(course) == course.url /= Absent /\ Truthy(course.url)

\* C16 (as claimed): a record's booking_url is written only with a found URL;
\* a venue whose processing fails keeps the booking_url persisted before the run.
C16_BookingUrlKeptOnFailure ==
  BeforeSave =>
    \A i \in 1..Len(courses) :
      courses[i].booking_url /= file.records[i].booking_url
        => Truthy(courses[i].booking_url)

\* C17 (as claimed): every entry point skips a record without url (key absent
\* or value empty) without error: no KeyError, no navigation for the record, the
\* record not modified.
C17_MissingUrlSkipped ==
  /\ outcome /= "KEY_ERROR"
  /\ (entry = "discover" /\ courses /= <<>> /\ ~HasUrl(courses[1])) => seekNavs = 0
  /\ entry \in BatchEntries =>
       \A k \in 1..Len(batchNavs) : HasUrl(courses[batchNavs[k]])
  /\ BeforeSave =>
       \A i \in 1..Len(courses) :
         ~HasUrl(courses[i]) => courses[i] = file.records[i]

\* C18: when the venue file does not exist every entry point returns normally
\* with an empty venue set: no browser is acquired, nothing is navigated, and
\* the file is neither created nor written.
C18_MissingFileIsEmptyVenueSet ==
  /\ []((entry /= "helper" /\ ~file.exists) =>
          /\ browser = "none"
          /\ starts = 0
          /\ navs = <<>>
          /\ seekNavs = 0
          /\ batchNavs = <<>>
          /\ courses = <<>>
          /\ pc \in {"load", "done"}
          /\ (pc = "done" => outcome = "NO_COURSES"))
  /\ [][~file.exists => file' = file]_vars

\* a run of the LLM updater on a missing file has returned
C18_Witness ==
  /\ entry = "update"
  /\ use_llm
  /\ ~file.exists
  /\ pc = "done"
  /\ outcome = "NO_COURSES"
  /\ browser = "none"

IndexesWithUrl ==
  SelectSeq([i \in 1..Len(courses) |-> i], LAMBDA i : HasUrl(courses[i]))

\* C20 (as claimed): a run in which no rate-limit error was raised goes through
\* all venues, whatever else fails: every venue with a url is processed and the
\* records are saved at the end.
C20_OtherFailuresDoNotHalt ==
  (/\ entry \in BatchEntries
   /\ pc = "done"
   /\ courses /= <<>>
   /\ \A i \in 1..Len(courses) : courses[i].url /= Absent
   /\ signals = <<>>)
    => /\ outcome = "SAVED"
       /\ batchNavs = IndexesWithUrl

(***************************************************************************)
(* Failures of a probe navigation.                                         *)
(***************************************************************************)
\* C21 (as claimed): a probe navigation that fails does not raise out of the
\* discovery run, and the step goes on to the next-candidate search like a
\* page with no availability and no login wall.
C21_NavigationFailureRecovered ==
  /\ (entry = "discover" /\ navs /= <<>>) => outcome /= "RAISED"
  /\ (pc = "after_arun" /\ ~page.loaded) => calls.next = 1

\* C22 (as claimed): a probe step whose page received an API payload that
\* indicates availability ends AVAILABLE, whatever the rendered content says
\* (the returned value is a boolean: it carries no payload set).
C22_ApiPayloadDecidesFirst ==
  (pc = "after_arun" /\ page.loaded /\ page.api) => result.tee_times_found

(***************************************************************************)
(* Properties of the content heuristics.                                   *)
(***************************************************************************)
\* the time-of-day tokens (H:MM, H:MM AM, H:MM PM) written in a phrase
TimeTokensOf(t) ==
  IF t = "9:00 AM 10:30 AM 14:15" THEN { "9:00 AM", "10:30 AM", "14:15" } ELSE {}

TimeTokensIn(content) == UNION { TimeTokensOf(t) : t \in content }

\* the markup has a login keyword
HasLoginMarker(content) == \E t \in content : SubTok("sign in", Lower(t))

\* C23 (as claimed): markup with at least three distinct time-of-day tokens and
\* no login marker is reported as showing tee times.
C23_ThreeTimeTokensAvailable ==
  (/\ Returned("detect_tee_times")
   /\ Cardinality(TimeTokensIn(call.arg)) >= 3
   /\ ~HasLoginMarker(call.arg))
    => call.out = TRUE

\* the markup is made of names of booking systems and of nothing else: it has
\* no time token and no availability keyword
BrandOnly(content) ==
  /\ content /= {}
  /\ \A t \in content : Lower(t) \in booking_systems

\* C24 (as claimed): markup that names a booking system and has neither a time
\* token nor an availability keyword is reported as not showing tee times.
C24_BrandAloneNotAvailable ==
  (Returned("detect_tee_times") /\ BrandOnly(call.arg)) => call.out = FALSE

(***************************************************************************)
(* The credentials.                                                        *)
(***************************************************************************)
\* C25 (as claimed): two runs that see the same page and differ only in the
\* values of the username and the password print the same lines.
C25_LogIndependentOfCredentials ==
  Returned("perform_login_log") => call.out[1] = call.out[2]

(***************************************************************************)
(* The probe chain as a whole.                                             *)
(***************************************************************************)
\* C26: the first probe frame has depth 0 and every recursion enters a frame
\* one level deeper (max_depth is the same constant in every frame); the depth
\* changes at no other step, no frame is deeper than max_depth + 1, and a run
\* issues at most max_depth + 1 probe navigations.
C26_DepthCountsRecursions ==
  /\ [](entry = "discover" =>
          /\ depth \in 0..(max_depth + 1)
          /\ (pc \in HookPcs \cup {"probe", "after_arun"} => depth = frames)
          /\ Len(navs) <= max_depth + 1)
  /\ [][ pc = "seek_done" /\ pc' = "probe" => depth' = 0 /\ frames' = 0 ]_vars
  /\ [][ pc = "after_arun" /\ pc' = "probe" => depth' = depth + 1 ]_vars
  /\ [][ depth' /= depth => pc = "after_arun" /\ pc' = "probe" ]_vars

\* the deepest frame: it was entered at depth max_depth + 1 after max_depth + 1
\* navigations and returned at once
C26_Witness ==
  /\ entry = "discover"
  /\ depth = max_depth + 1
  /\ Len(navs) = max_depth + 1
  /\ pc = "return"
  /\ frames = max_depth + 1
  /\ outcome = "DEPTH_EXCEEDED"

\* C27: the run's result is the result of its last probe step: a frame returns
\* the value of the frame it recursed into unchanged, the value is TRUE exactly
\* when the last page probed confirmed availability, and EXHAUSTED,
\* DEPTH_EXCEEDED and no candidate at the seek step end without success.
C27_LastStepDecides ==
  /\ [](entry = "discover" /\ pc \in {"return", "finally", "done"} =>
          /\ retval = (outcome = "AVAILABLE")
          /\ (navs /= <<>> => retval = result.tee_times_found)
          /\ (outcome \in {"AVAILABLE", "EXHAUSTED"} => url = navs[Len(navs)])
          /\ (outcome \in {"EXHAUSTED", "DEPTH_EXCEEDED", "NO_CANDIDATE"} => ~retval))
  /\ [][ pc = "return" => retval' = retval /\ outcome' = outcome ]_vars

\* availability was confirmed on the third page of the chain, and the value went
\* up through the two suspended frames to the caller
C27_Witness ==
  /\ entry = "discover"
  /\ pc = "done"
  /\ outcome = "AVAILABLE"
  /\ retval
  /\ Len(navs) = 3
  /\ frames = 0

(***************************************************************************)
(* Properties of the login and click helpers.                              *)
(***************************************************************************)
\* the selector list of each step of _perform_login and the operation it makes
LoginStepLists ==
  [username |-> login_selectors, password |-> password_selectors,
   submit |-> submit_selectors]

LoginStepOps ==
  [username |-> "fill_username", password |-> "fill_password", submit |-> "click"]

\* the operations of one kind among the page operations of a call
OpsOf(ops, kind) == SelectSeq(ops, LAMBDA o : o.op = kind)

\* C28: each step of _perform_login tries its selectors in list order and stops
\* at the first that succeeds: the selectors tried are a prefix of the list,
\* all but the last tried failed, the step stops before the end of the list only
\* on a success, and it makes at most one fill or click, on the selector it
\* stopped at.
C28_FirstSuccessStopsEachStep ==
  Returned("perform_login") =>
    \A step \in DOMAIN LoginStepLists :
      LET list == LoginStepLists[step]
          tried == call.out.tried[step]
          done == OpsOf(call.out.ops, LoginStepOps[step])
          n == Len(tried)
      IN  /\ n <= Len(list)
          /\ tried = SubSeq(list, 1, n)
          /\ \A k \in 1..(n - 1) : tried[k] \notin call.arg
          /\ (n > 0 /\ n < Len(list) => tried[n] \in call.arg)
          /\ Len(done) <= 1
          /\ (Len(done) = 1 => n > 0 /\ done[1].selector = tried[n]
                                 /\ tried[n] \in call.arg)
          /\ (n > 0 /\ tried[n] \in call.arg => Len(done) = 1)

\* a login on a page with an e-mail input (third username selector) and two
\* submit controls: the username step tried three selectors, the submit step
\* one, and only the first control was clicked
C28_Witness ==
  /\ Returned("perform_login")
  /\ call.arg = { "input[type=\"email\"]", "input[type=\"password\"]",
                  "button[type=\"submit\"]", "button:contains(\"Login\")" }
  /\ call.out.ok
  /\ Len(call.out.tried.username) = 3
  /\ call.out.tried.submit = << "button[type=\"submit\"]" >>
  /\ Len(call.out.ops) = 3

\* the click approaches in their fixed order
ClickStrategies == <<"visible", "force", "js", "goto">>

\* whether an approach succeeds on the element of the call
ClickSucceeds(e, s) ==
  CASE s = "visible" -> e.visible
    [] s = "force" -> e.force
    [] s = "js" -> e.js
    [] s = "goto" -> e.goto

\* C29: _click_with_navigation_handling makes its approaches in the order
\* visible click, forced click, JavaScript click, navigation to the href; an
\* approach is made only if every earlier one failed, so none follows a success
\* and at most one succeeds; it stops early only on a success or, before the
\* navigation, for an element without href.
C29_ClickFallbackInOrder ==
  Returned("click_with_navigation_handling") =>
    LET e == call.arg
        a == call.ops
        n == Len(a)
    IN  /\ n \in 1..Len(ClickStrategies)
        /\ a = SubSeq(ClickStrategies, 1, n)
        /\ \A k \in 1..(n - 1) : ~ClickSucceeds(e, a[k])
        /\ Cardinality({ k \in 1..n : ClickSucceeds(e, a[k]) }) <= 1
        /\ (n < Len(ClickStrategies) =>
              ClickSucceeds(e, a[n]) \/ (n = 3 /\ ~e.href))
        /\ (call.out = TRUE => ClickSucceeds(e, a[n]))

\* the visible click failed and the forced click succeeded: the JavaScript
\* click, which would have succeeded too, and the navigation were not made
C29_Witness ==
  /\ Returned("click_with_navigation_handling")
  /\ ~call.arg.visible
  /\ call.arg.force
  /\ call.arg.js
  /\ call.arg.href
  /\ call.ops = <<"visible", "force">>
  /\ call.out = TRUE

\* the URLs navigated so far
Visited == { navs[k] : k \in 1..Len(navs) }

\* the chain went between two pages, and every page probed named the other
\* one as its next candidate
PingPong ==
  /\ Len(navs) >= 2
  /\ navs[1] /= navs[2]
  /\ \A k \in 3..Len(navs) : navs[k] = navs[k - 2]
  /\ Len(cands) = Len(navs)
  /\ \A k \in 1..Len(cands) : cands[k] = navs[IF k % 2 = 1 THEN 2 ELSE 1]

\* C30: the chain keeps no visited set.  A candidate is refused only if it is
\* the URL of the step that found it: a candidate that was navigated earlier
\* is accepted and navigated again.  A chain of two pages that name each other
\* and never show tee times is stopped by the depth test alone: it fails with
\* DEPTH_EXCEEDED after exactly max_depth + 1 navigations.
C30_NoVisitedSet ==
  /\ [][ pc = "hook_next" =>
           result'.next_url =
             IF next_url' /= None /\ next_url' /= url THEN next_url' ELSE None ]_vars
  /\ [][ (/\ pc = "after_arun"
          /\ ~result.tee_times_found
          /\ result.next_url \in Visited
          /\ result.next_url /= None)
           => pc' = "probe" /\ url' = result.next_url ]_vars
  /\ [](entry = "discover" /\ pc = "done" /\ PingPong
            => /\ outcome = "DEPTH_EXCEEDED"
               /\ Len(navs) = max_depth + 1
               /\ ~Distinct(navs)
               /\ ~retval)

\* two pages named each other until the depth test stopped the chain: each was
\* navigated three times
C30_Witness ==
  /\ entry = "discover"
  /\ pc = "done"
  /\ PingPong
  /\ outcome = "DEPTH_EXCEEDED"
  /\ Len(navs) = max_depth + 1
  /\ navs[max_depth + 1] = navs[2]
  /\ ~retval

(***************************************************************************)
(* The next-candidate search of a probe step.                              *)
(***************************************************************************)
\* C31: _find_next_candidate_link gives the link of the first anchor in
\* document order that matches a candidate keyword, and no other; when that
\* link is the URL of the step itself the step keeps no next URL (it will end
\* EXHAUSTED), also when later anchors of the page match and lead elsewhere.
C31_FirstCandidateOnly ==
  Returned("find_next_candidate_link") =>
    LET l == call.arg.anchors
        u == call.arg.url
        cand == AnchorsWhere(IsCandidateAnchor)
    IN  /\ call.out.next_url = None <=> cand = {}
        /\ cand /= {} =>
             \E i \in cand :
               /\ \A j \in cand : i <= j
               /\ call.out.next_url =
                    Resolve(u, IF Truthy(l[i].href) THEN l[i].href ELSE <<>>)
        /\ call.out.next_url = u => call.out.result_next_url = None
        /\ call.out.next_url \notin {None, u} =>
             call.out.result_next_url = call.out.next_url

\* the first candidate anchor leads to the page itself, the second one to
\* another site: the step keeps no next URL
C31_Witness ==
  /\ Returned("find_next_candidate_link")
  /\ Len(call.arg.anchors) = 2
  /\ call.arg.anchors[1].href = call.arg.url
  /\ IsCandidateAnchor(call.arg.anchors[1])
  /\ IsCandidateAnchor(call.arg.anchors[2])
  /\ call.arg.anchors[2].href /= call.arg.url
  /\ Truthy(call.arg.anchors[2].href)
  /\ call.out.next_url = call.arg.url
  /\ call.out.result_next_url = None

(***************************************************************************)
(* The venue file of an aborted batch run.                                 *)
(***************************************************************************)
\* C32: a run of update_course_booking_urls that aborts on a rate-limit error
\* saves nothing.  The venue file is written by no step of the run other than
\* the save that ends it SAVED, the aborted run never gets there, and it ends
\* with the file as it was and the records in memory, updated or not, dropped.
C32_AbortSavesNothing ==
  /\ [][ entry = "update" /\ outcome' /= "SAVED" => file' = file ]_vars
  /\ [](outcome = "RATE_LIMIT" =>
          /\ entry = "update"
          /\ pc \in {"batch_abort", "done"}
          /\ file.exists
          /\ Len(file.records) = Len(courses)
          /\ \A i \in 1..Len(courses) :
               i \notin { batchNavs[k] : k \in 1..Len(batchNavs) }
                 => courses[i] = file.records[i])
  /\ [][ outcome = "RATE_LIMIT" =>
           outcome' = "RATE_LIMIT" /\ file' = file /\ courses' = courses ]_vars

\* the first venue was updated in memory, the second raised a rate-limit error:
\* the run is over and the file still holds the first venue's old record
C32_Witness ==
  /\ entry = "update"
  /\ pc = "done"
  /\ outcome = "RATE_LIMIT"
  /\ batchNavs = <<1, 2>>
  /\ signals = <<2>>
  /\ courses[1] /= file.records[1]
  /\ courses[2] = file.records[2]

(***************************************************************************)
(* The navigation listener of the click helper.                            *)
(***************************************************************************)
\* the listener operations among the page operations made so far
ListenerOps == SelectSeq(call.trace, LAMBDA o : o \in {"on", "remove_listener"})

\* framenavigated listeners registered on the page
Registered ==
  Len(SelectSeq(call.trace, LAMBDA o : o = "on"))
    - Len(SelectSeq(call.trace, LAMBDA o : o = "remove_listener"))

\* how the last call of _click_with_navigation_handling ended
ClickExit(e) ==
  LET click_success == e.visible \/ e.force \/ e.js \/ (e.href /\ e.goto)
      waits == e.navEvent \/ e.urlChanged
  IN  IF ~click_success THEN "all_failed"
      ELSE IF ~waits THEN "no_navigation"
      ELSE IF e.waitOk THEN "navigated"
      ELSE "wait_raised"

\* C33: every call of _click_with_navigation_handling registers its listener
\* once and removes it before it returns, however it ends: the listener
\* operations on the page alternate on / remove_listener, and between calls no
\* listener is registered.
C33_ListenerRemovedOnEveryExit ==
  call.fn = "click_with_navigation_handling" =>
    /\ \A k \in 1..Len(ListenerOps) :
         ListenerOps[k] = IF k % 2 = 1 THEN "on" ELSE "remove_listener"
    /\ Registered = 0
    /\ (call.returned =>
          /\ ClicksMade >= 1
          /\ Len(call.trace) >= 2
          /\ call.trace[Len(call.trace)] = "remove_listener"
          /\ (call.out = FALSE <=> ClickExit(call.arg) \in {"all_failed", "wait_raised"}))

\* the second call on a page ended by an exception of the wait for the new
\* page, after a first call whose clicks all failed: no listener is left
C33_Witness ==
  /\ Returned("click_with_navigation_handling")
  /\ ClicksMade = 2
  /\ ClickExit(call.arg) = "wait_raised"
  /\ call.out = FALSE
  /\ call.trace[2] = "visible"
  /\ Len(SelectSeq(call.trace, LAMBDA o : o = "goto")) >= 1
  /\ Registered = 0

====
